---- MODULE Spec2Model ----
(***************************************************************************)
(* A model of the decision core of the AI-based traffic management system: *)
(* the density classifier, the sequence planner and the aggregator of      *)
(* web_processor.py, the centroid tracker of src/vehicle_detector.py and   *)
(* the batch request flow of app.py.                                       *)
(*                                                                         *)
(* A Python dict is modelled as a sequence of records in insertion order   *)
(* (the order its items() are iterated in).  Wall-clock time is counted in *)
(* ticks of 1/AssumedFps second.                                           *)
(***************************************************************************)
EXTENDS Integers, Sequences, FiniteSets, TLC

VARIABLES
    op,                \* the operation that produced the current state
    vehicle_count,     \* argument of _classify_density
    density_level,     \* its result
    traffic_analysis,  \* argument of _calculate_optimal_sequence / aggregate's summary
    optimal_sequence,  \* result of _calculate_optimal_sequence
    tracked_vehicles,  \* VehicleDetector.tracked_vehicles: identity -> track
    next_vehicle_id,   \* VehicleDetector.next_vehicle_id
    now,               \* time.time(), in ticks
    boxes,             \* detect_vehicles: the vehicle boxes still to be handled
    detections,        \* detect_vehicles: the detections handled so far, with ids
    id_log,            \* history: every identity handed to a new track, in order
    direction_results, \* the results per direction, in insertion order
    recommendations,   \* aggregate_results: the entries per direction
    controller,        \* the TrafficSignalController of the processor
    update_log,        \* history: the summaries handed to controller.update
    video,             \* process_direction_video: the capture and the loop's locals
    session,           \* app.py: the Flask session of one client
    request,           \* app.py: the locals of process_simulation
    track_owner,       \* history: identity -> the direction whose detection created the track
    live               \* main.py: the position and the locals of TrafficManagementSystem.run

classifyVars == <<vehicle_count, density_level>>
planVars == <<traffic_analysis, optimal_sequence>>
trackerVars == <<tracked_vehicles, next_vehicle_id, now, boxes, detections, id_log>>
aggregateVars == <<direction_results, recommendations, controller, update_log>>
webVars == <<video>>
batchVars == <<session, request, track_owner>>
liveVars == <<live>>

vars == <<op, classifyVars, planVars, trackerVars, aggregateVars, webVars, batchVars, liveVars>>

\* what the actions of one specification leave alone
nonClassifyVars == <<planVars, trackerVars, aggregateVars, webVars, batchVars, liveVars>>
nonPlanVars == <<classifyVars, trackerVars, aggregateVars, webVars, batchVars, liveVars>>
nonTrackerVars == <<classifyVars, planVars, aggregateVars, webVars, batchVars, liveVars>>

(***************************************************************************)
(* Bounds of the model                                                     *)
(***************************************************************************)
\* largest vehicle count handed to the classifier
MaxCount == 60

\* identities a detector may allocate before the model stops creating tracks
MaxVehicleIds == 3

\* last tick of the clock
MaxTime == 12

\* most vehicle boxes in one frame
MaxDetections == 2

\* the largest max_frames a caller passes to process_direction_video
MaxFramesArgument == 250

\* the seconds the clock of the signal controller runs
MaxSeconds == 48

\* the cycle count up to which force_next_signal is called
MaxCycles == 3

\* the frames the capture of the live loop delivers at most
MaxLiveFrames == 30

\* the s and p keys handled in one run at most
MaxKeys == 2

(***************************************************************************)
(* Configuration (src/src/config.py)                                       *)
(***************************************************************************)
Directions == {"NORTH", "SOUTH", "EAST", "WEST"}

Levels == {"LOW", "MEDIUM", "HIGH", "CRITICAL"}

DENSITY_THRESHOLDS ==
    [LOW |-> 5, MEDIUM |-> 15, HIGH |-> 25, CRITICAL |-> 26]

\* a configuration slip: the CRITICAL green time exceeds the safety limit
TimingsWithLongCritical ==
    [LOW      |-> [green |-> 15, yellow |-> 3, min_green |-> 10],
     MEDIUM   |-> [green |-> 30, yellow |-> 3, min_green |-> 20],
     HIGH     |-> [green |-> 45, yellow |-> 3, min_green |-> 30],
     CRITICAL |-> [green |-> 95, yellow |-> 3, min_green |-> 40]]

SIGNAL_TIMINGS ==
    [LOW      |-> [green |-> 15, yellow |-> 3, min_green |-> 10],
     MEDIUM   |-> [green |-> 30, yellow |-> 3, min_green |-> 20],
     HIGH     |-> [green |-> 45, yellow |-> 3, min_green |-> 30],
     CRITICAL |-> [green |-> 60, yellow |-> 3, min_green |-> 40]]

MAX_GREEN_DURATION == 90

MIN_GREEN_DURATION == 10

TRACKING_MAX_DISTANCE == 50

TRACKING_MAX_FRAMES_MISSING == 10

\* the frame rate cleanup_tracks assumes; the clock ticks AssumedFps times a second
AssumedFps == 30

(***************************************************************************)
(* Sequence helpers                                                        *)
(***************************************************************************)
Range(s) == {s[i] : i \in 1..Len(s)}

NoDuplicates(s) == \A i, j \in 1..Len(s) : i # j => s[i] # s[j]

\* the sequences that list every element of the finite set S exactly once
Orderings(S) ==
    {s \in [1..Cardinality(S) -> S] : Range(s) = S}

(***************************************************************************)
(* WebTrafficProcessor._classify_density                                   *)
(***************************************************************************)
\* a boundary bug: the LOW bucket closes one vehicle early
ClassifyDensityStrict(count) ==
    IF count < 5 THEN "LOW"
    ELSE IF count <= 15 THEN "MEDIUM"
    ELSE IF count <= 25 THEN "HIGH"
    ELSE "CRITICAL"

\* a classification that is not monotone: the levels of the two middle
\* ranges are exchanged
ClassifyWithSwappedLevels(count) ==
    IF count <= 5 THEN "LOW"
    ELSE IF count <= 15 THEN "HIGH"
    ELSE IF count <= 25 THEN "MEDIUM"
    ELSE "CRITICAL"

_classify_density(count) ==
    IF count <= 5 THEN "LOW"
    ELSE IF count <= 15 THEN "MEDIUM"
    ELSE IF count <= 25 THEN "HIGH"
    ELSE "CRITICAL"

(***************************************************************************)
(* WebTrafficProcessor._calculate_optimal_sequence                         *)
(***************************************************************************)
\* density_priority.get(density, 0)
density_priority(density) ==
    CASE density = "CRITICAL" -> 4
      [] density = "HIGH"     -> 3
      [] density = "MEDIUM"   -> 2
      [] density = "LOW"      -> 1
      [] OTHER                -> 0

\* the sort key of one item: the tuple (priority, count)
SortKey(item) == <<density_priority(item.density), item.count>>

\* Python's tuple comparison a < b on two (priority, count) keys
KeyLess(a, b) == a[1] < b[1] \/ (a[1] = b[1] /\ a[2] < b[2])

\* One insertion of sorted(..., reverse=True): item goes behind every element
\* whose key is not smaller than its own, so items with equal keys keep the
\* order they had in the input (list.sort stays stable under reverse=True).
InsertDescending(sorted, item) ==
    LET ahead == {i \in 1..Len(sorted) :
                    ~KeyLess(SortKey(sorted[i]), SortKey(item))}
        k == Cardinality(ahead)
    IN  SubSeq(sorted, 1, k) \o <<item>> \o SubSeq(sorted, k + 1, Len(sorted))

RECURSIVE SortedDescending(_)
SortedDescending(items) ==
    IF items = <<>> THEN <<>>
    ELSE InsertDescending(SortedDescending(SubSeq(items, 1, Len(items) - 1)),
                          items[Len(items)])

\* a sort-key bug: the vehicle count is left out of the key
SequenceByLevelOnly(analysis) ==
    LET RankOnly(item) == [item EXCEPT !.count = 0]
        sorted == SortedDescending([i \in 1..Len(analysis) |-> RankOnly(analysis[i])])
    IN  [i \in 1..Len(sorted) |-> sorted[i].direction]

_calculate_optimal_sequence(analysis) ==
    LET sorted_directions == SortedDescending(analysis)
    IN  [i \in 1..Len(sorted_directions) |-> sorted_directions[i].direction]

(***************************************************************************)
(* Specification of the classifier: every count up to MaxCount is          *)
(* classified once.                                                        *)
(***************************************************************************)
IdleClassify == vehicle_count = 0 /\ density_level = "NONE"

IdlePlan == traffic_analysis = <<>> /\ optimal_sequence = <<>>

\* VehicleDetector.__init__: no track, identities start at 0
FreshTracker ==
    /\ tracked_vehicles = <<>>
    /\ next_vehicle_id = 0
    /\ id_log = <<>>

IdleTracker ==
    /\ FreshTracker
    /\ now = 0
    /\ boxes = <<>>
    /\ detections = <<>>

\* TrafficSignalController(): no direction is active yet
FreshController ==
    [active_direction |-> "NONE", phase |-> "RED", phase_start |-> 0,
     duration |-> 0, cycle_count |-> 0,
     signals |-> [d \in Directions |-> "RED"],
     summary |-> <<>>]

IdleAggregate ==
    /\ direction_results = <<>>
    /\ recommendations = <<>>
    /\ controller = FreshController
    /\ update_log = <<>>

IdleWeb == video = "NONE"

\* a session without uploads and no request under way
EmptySession == [uploaded_files |-> <<>>, processing_mode |-> "NONE", has_results |-> FALSE]

NoRequest == [pc |-> "none"]

\* run has not been called
NotRunning == [pc |-> "none"]

IdleLive == live = NotRunning

IdleBatch ==
    /\ session = EmptySession
    /\ request = NoRequest
    /\ track_owner = <<>>

InitClassify ==
    /\ op = "init"
    /\ vehicle_count \in 0..MaxCount
    /\ density_level = "NONE"
    /\ IdlePlan /\ IdleTracker /\ IdleAggregate /\ IdleWeb /\ IdleBatch /\ IdleLive

Classify ==
    /\ op = "init"
    /\ density_level' = _classify_density(vehicle_count)
    /\ op' = "classify"
    /\ UNCHANGED <<vehicle_count, nonClassifyVars>>

NextClassify == Classify

SpecClassify == InitClassify /\ [][NextClassify]_vars

\* C1: for every non-negative count the classifier returns LOW up to 5, MEDIUM
\* for 6..15, HIGH for 16..25 and CRITICAL from 26 on; every count gets one of
\* the four levels, and the same buckets result from DENSITY_THRESHOLDS.
C1_ClassifyBoundaries ==
    op = "classify" =>
        /\ density_level \in Levels
        /\ density_level = "LOW" <=> vehicle_count <= 5
        /\ density_level = "MEDIUM" <=> (6 <= vehicle_count /\ vehicle_count <= 15)
        /\ density_level = "HIGH" <=> (16 <= vehicle_count /\ vehicle_count <= 25)
        /\ density_level = "CRITICAL" <=> vehicle_count >= 26
        /\ density_level = "LOW" <=> vehicle_count <= DENSITY_THRESHOLDS.LOW
        /\ density_level = "MEDIUM" <=>
              (DENSITY_THRESHOLDS.LOW < vehicle_count
                  /\ vehicle_count <= DENSITY_THRESHOLDS.MEDIUM)
        /\ density_level = "HIGH" <=>
              (DENSITY_THRESHOLDS.MEDIUM < vehicle_count
                  /\ vehicle_count <= DENSITY_THRESHOLDS.HIGH)
        /\ density_level = "CRITICAL" <=> vehicle_count >= DENSITY_THRESHOLDS.CRITICAL

C1_Witness ==
    op = "classify" /\ vehicle_count = 26 /\ density_level = "CRITICAL"

(***************************************************************************)
(* Specification of the planner: a traffic summary of one to four          *)
(* directions, in any insertion order and with any level and count per     *)
(* direction, is planned once.                                             *)
(***************************************************************************)
PlanCounts == {2, 8}

Item(d, c, l) == [direction |-> d, count |-> c, density |-> l, vehicles |-> <<>>]

InitPlan ==
    /\ op = "init"
    /\ \E D \in (SUBSET Directions) \ {{}} :
         \E o \in Orderings(D) :
           \E c \in [1..Cardinality(D) -> PlanCounts] :
             \E l \in [1..Cardinality(D) -> Levels] :
               traffic_analysis = [i \in 1..Cardinality(D) |-> Item(o[i], c[i], l[i])]
    /\ optimal_sequence = <<>>
    /\ IdleClassify /\ IdleTracker /\ IdleAggregate /\ IdleWeb /\ IdleBatch /\ IdleLive

Plan ==
    /\ op = "init"
    /\ optimal_sequence' = _calculate_optimal_sequence(traffic_analysis)
    /\ op' = "plan"
    /\ UNCHANGED <<traffic_analysis, nonPlanVars>>

NextPlan == Plan

SpecPlan == InitPlan /\ [][NextPlan]_vars

\* the item of a summary that belongs to direction d
ItemOf(analysis, d) ==
    analysis[CHOOSE i \in 1..Len(analysis) : analysis[i].direction = d]

DirectionsOf(analysis) == {analysis[i].direction : i \in 1..Len(analysis)}

SeverityRank(level) ==
    CASE level = "CRITICAL" -> 4 [] level = "HIGH" -> 3
      [] level = "MEDIUM" -> 2 [] level = "LOW" -> 1

\* C2: the plan of a non-empty summary is a permutation of the directions
\* present, and of two consecutive directions the first has the higher severity
\* rank, or the same rank and a count that is not smaller.
C2_PlanSortedPermutation ==
    op = "plan" =>
        /\ Len(optimal_sequence) = Len(traffic_analysis)
        /\ NoDuplicates(optimal_sequence)
        /\ Range(optimal_sequence) = DirectionsOf(traffic_analysis)
        /\ \A i \in 1..(Len(optimal_sequence) - 1) :
              LET a == ItemOf(traffic_analysis, optimal_sequence[i])
                  b == ItemOf(traffic_analysis, optimal_sequence[i + 1])
              IN  \/ SeverityRank(a.density) > SeverityRank(b.density)
                  \/ /\ SeverityRank(a.density) = SeverityRank(b.density)
                     /\ a.count >= b.count

\* a higher level beats a higher count: EAST (HIGH, 2) precedes WEST (MEDIUM, 8)
C2_Witness ==
    /\ op = "plan"
    /\ traffic_analysis = <<Item("SOUTH", 2, "LOW"), Item("WEST", 8, "MEDIUM"),
                            Item("EAST", 2, "HIGH"), Item("NORTH", 8, "CRITICAL")>>
    /\ optimal_sequence = <<"NORTH", "EAST", "WEST", "SOUTH">>

\* the summaries holding the items of analysis in another insertion order
Reorderings(analysis) ==
    {[i \in 1..Len(analysis) |-> analysis[p[i]]] : p \in Orderings(1..Len(analysis))}

\* C3: summaries with the same (direction, level, count) entries get the same
\* plan, whatever order the entries were inserted in.
C3_PlanIgnoresInsertionOrder ==
    op = "plan" =>
        \A other \in Reorderings(traffic_analysis) :
            _calculate_optimal_sequence(other) = optimal_sequence

(***************************************************************************)
(* VehicleDetector: detections and the centroid tracker                    *)
(***************************************************************************)
\* The vehicle boxes [x1, y1, x2, y2] the detector reports, with integral
\* coordinates.  Their centres are (100,100), (105,102), (130,140), (500,500):
\* the second is 5.4 px from the first and 45.5 px from the third, the third
\* exactly 50 px from the first, the fourth far from all.
Boxes ==
    {<<90, 90, 110, 110>>, <<95, 92, 115, 112>>,
     <<120, 130, 140, 150>>, <<490, 490, 510, 510>>}

\* detection['center']
Center(bbox) == <<(bbox[1] + bbox[3]) \div 2, (bbox[2] + bbox[4]) \div 2>>

\* the detection built from one vehicle box, before it gets an identity
Detection(bbox) == [bbox |-> bbox, center |-> Center(bbox)]

\* detection['id'] = tracking_id
Tagged(detection, tracking_id) ==
    [bbox |-> detection.bbox, center |-> detection.center, id |-> tracking_id]

\* The square of the centre distance.  The code compares np.sqrt of it; on
\* pixel coordinates sqrt keeps the order of the squares and sqrt(2500) = 50,
\* so comparing squares decides the same.
DistanceSquared(a, b) ==
    (a[1] - b[1]) * (a[1] - b[1]) + (a[2] - b[2]) * (a[2] - b[2])

\* a threshold bug: a track exactly TRACKING_MAX_DISTANCE away still matches
WithinOrAtTrackingDistance(d2) == d2 <= TRACKING_MAX_DISTANCE * TRACKING_MAX_DISTANCE

\* distance < config.TRACKING_MAX_DISTANCE, on the squares
InTrackingDistance(d2) == d2 < TRACKING_MAX_DISTANCE * TRACKING_MAX_DISTANCE

\* the keys of a dict whose keys went in in increasing order, as iterated
RECURSIVE Ascending(_)
Ascending(S) ==
    IF S = {} THEN <<>>
    ELSE LET least == CHOOSE x \in S : \A y \in S : x <= y
         IN  <<least>> \o Ascending(S \ {least})

\* The loop over tracked_vehicles.items(): best is (min_distance, matched_id),
\* with min_distance = -1 for float('inf') and matched_id = -1 for None.
RECURSIVE ClosestTrack(_, _, _, _)
ClosestTrack(tracks, ids, center, best) ==
    IF ids = <<>> THEN best
    ELSE LET vehicle_id == Head(ids)
             distance == DistanceSquared(center, tracks[vehicle_id].center)
             closer == /\ InTrackingDistance(distance)
                       /\ (best[1] = -1 \/ distance < best[1])
         IN  ClosestTrack(tracks, Tail(ids), center,
                          IF closer THEN <<distance, vehicle_id>> ELSE best)

Track(detection, t) ==
    [center |-> detection.center, bbox |-> detection.bbox,
     frames_missing |-> 0, last_seen |-> t]

\* tracks with tracks[id] set to track, id added when it is new
Put(tracks, id, track) ==
    [k \in (DOMAIN tracks) \cup {id} |-> IF k = id THEN track ELSE tracks[k]]

\* an allocation bug: the new identity is the number of live tracks
AssignIdByLiveCount(tracks, next_id, detection, t) ==
    LET matched_id ==
            ClosestTrack(tracks, Ascending(DOMAIN tracks), detection.center, <<-1, -1>>)[2]
        new_id == Cardinality(DOMAIN tracks)
    IN  IF matched_id # -1
        THEN [tracks |-> Put(tracks, matched_id, Track(detection, t)),
              next_id |-> next_id, id |-> matched_id]
        ELSE [tracks |-> Put(tracks, new_id, Track(detection, t)),
              next_id |-> next_id + 1, id |-> new_id]

\* an assignment that also evicts: before matching, the tracks older than the
\* eviction window are dropped
AssignEvictingStale(tracks, next_id, detection, t) ==
    LET fresh == [id \in {k \in DOMAIN tracks :
                             t - tracks[k].last_seen <= TRACKING_MAX_FRAMES_MISSING}
                     |-> tracks[id]]
        matched_id ==
            ClosestTrack(fresh, Ascending(DOMAIN fresh), detection.center, <<-1, -1>>)[2]
    IN  IF matched_id # -1
        THEN [tracks |-> Put(fresh, matched_id, Track(detection, t)),
              next_id |-> next_id, id |-> matched_id]
        ELSE [tracks |-> Put(fresh, next_id, Track(detection, t)),
              next_id |-> next_id + 1, id |-> next_id]

\* VehicleDetector._assign_tracking_id on the tracker state (tracks, next_id)
\* at time t: the new state and the identity returned
_assign_tracking_id(tracks, next_id, detection, t) ==
    LET matched_id ==
            ClosestTrack(tracks, Ascending(DOMAIN tracks), detection.center, <<-1, -1>>)[2]
    IN  IF matched_id # -1
        THEN [tracks |-> Put(tracks, matched_id, Track(detection, t)),
              next_id |-> next_id, id |-> matched_id]
        ELSE [tracks |-> Put(tracks, next_id, Track(detection, t)),
              next_id |-> next_id + 1, id |-> next_id]

\* current_time - track['last_seen'] > TRACKING_MAX_FRAMES_MISSING / 30, with
\* both times in ticks of 1/AssumedFps second and the denominators cleared
Expired(track, current_time) ==
    (current_time - track.last_seen) * AssumedFps
        > TRACKING_MAX_FRAMES_MISSING * AssumedFps

\* an eviction bug: a track exactly as old as the window is removed too
RemoveAtWindow(tracks, current_time) ==
    LET ids_to_remove ==
            {id \in DOMAIN tracks :
                (current_time - tracks[id].last_seen) * AssumedFps
                    >= TRACKING_MAX_FRAMES_MISSING * AssumedFps}
    IN  [id \in (DOMAIN tracks) \ ids_to_remove |-> tracks[id]]

\* VehicleDetector.cleanup_tracks: the track table it leaves
RemoveOldTracks(tracks, current_time) ==
    LET ids_to_remove == {id \in DOMAIN tracks : Expired(tracks[id], current_time)}
    IN  [id \in (DOMAIN tracks) \ ids_to_remove |-> tracks[id]]

(***************************************************************************)
(* Specification of one detector: frames of up to MaxDetections vehicle    *)
(* boxes are detected, old tracks are cleaned up between frames, and time  *)
(* passes.                                                                 *)
(***************************************************************************)
TickSteps == {5, 6}

FramesOfBoxes == UNION {[1..n -> Boxes] : n \in 0..MaxDetections}

\* detect_vehicles has been entered and has not returned
InDetectLoop == op \in {"detect", "matched", "created"}

InitTracker ==
    /\ op = "init"
    /\ IdleTracker
    /\ IdleClassify /\ IdlePlan /\ IdleAggregate /\ IdleWeb /\ IdleBatch /\ IdleLive

\* detect_vehicles is entered: the model's boxes are the vehicle boxes of the frame
DetectVehicles ==
    /\ ~InDetectLoop
    /\ \E frame \in FramesOfBoxes : boxes' = frame
    /\ detections' = <<>>
    /\ op' = "detect"
    /\ UNCHANGED <<tracked_vehicles, next_vehicle_id, now, id_log, nonTrackerVars>>

\* one pass of the loop over the boxes: the detection gets its identity
AssignTrackingId ==
    /\ InDetectLoop
    /\ boxes # <<>>
    /\ LET detection == Detection(Head(boxes))
           r == _assign_tracking_id(tracked_vehicles, next_vehicle_id, detection, now)
       IN  /\ r.next_id <= MaxVehicleIds
           /\ tracked_vehicles' = r.tracks
           /\ next_vehicle_id' = r.next_id
           /\ id_log' = IF r.id \in DOMAIN tracked_vehicles THEN id_log
                        ELSE Append(id_log, r.id)
           /\ op' = IF r.id \in DOMAIN tracked_vehicles THEN "matched" ELSE "created"
           /\ detections' = Append(detections, Tagged(detection, r.id))
    /\ boxes' = Tail(boxes)
    /\ UNCHANGED <<now, nonTrackerVars>>

\* detect_vehicles returns its detections to the caller
ReturnDetections ==
    /\ InDetectLoop
    /\ boxes = <<>>
    /\ detections' = <<>>
    /\ op' = "return"
    /\ UNCHANGED <<tracked_vehicles, next_vehicle_id, now, boxes, id_log,
                   nonTrackerVars>>

CleanupTracks ==
    /\ ~InDetectLoop
    /\ tracked_vehicles' = RemoveOldTracks(tracked_vehicles, now)
    /\ op' = "cleanup"
    /\ UNCHANGED <<next_vehicle_id, now, boxes, detections, id_log,
                   nonTrackerVars>>

\* time passes between two operations
Tick ==
    /\ \E step \in TickSteps :
         /\ now + step <= MaxTime
         /\ now' = now + step
    /\ op' = IF InDetectLoop THEN op ELSE "tick"
    /\ UNCHANGED <<tracked_vehicles, next_vehicle_id, boxes, detections, id_log,
                   nonTrackerVars>>

NextTracker ==
    \/ DetectVehicles
    \/ AssignTrackingId
    \/ ReturnDetections
    \/ CleanupTracks
    \/ Tick

SpecTracker == InitTracker /\ [][NextTracker]_vars

\* the live tracks whose centre is less than TRACKING_MAX_DISTANCE from center
TracksNear(center) ==
    {id \in DOMAIN tracked_vehicles :
        DistanceSquared(center, tracked_vehicles[id].center)
            < TRACKING_MAX_DISTANCE * TRACKING_MAX_DISTANCE}

\* what C4 says of the step that handles the first of the remaining boxes
C4_Step ==
    Len(detections') = Len(detections) + 1 =>
        LET det == detections'[Len(detections')]
            near == TracksNear(det.center)
            Dist(id) == DistanceSquared(det.center, tracked_vehicles[id].center)
        IN  /\ det.bbox = Head(boxes)
            /\ det.center = Center(Head(boxes))
            /\ det.id \in DOMAIN tracked_vehicles'
            /\ tracked_vehicles'[det.id].center = det.center
            /\ tracked_vehicles'[det.id].bbox = det.bbox
            /\ tracked_vehicles'[det.id].last_seen = now
            /\ IF near # {}
               THEN /\ det.id \in near
                    /\ \A other \in near : Dist(det.id) <= Dist(other)
                    /\ DOMAIN tracked_vehicles' = DOMAIN tracked_vehicles
               ELSE /\ det.id \notin DOMAIN tracked_vehicles
                    /\ DOMAIN tracked_vehicles' = (DOMAIN tracked_vehicles) \cup {det.id}
            \* the second of two calls on a fresh tracker
            /\ (DOMAIN tracked_vehicles = {0} /\ next_vehicle_id = 1) =>
                  (det.id = 0 <=> Dist(0) < TRACKING_MAX_DISTANCE * TRACKING_MAX_DISTANCE)

\* C4: each detection, in list order, is tagged with a nearest live track
\* among those closer than TRACKING_MAX_DISTANCE, and that track takes the
\* detection's centre, box and time; when no track is that close a new track
\* is created and the detection is tagged with its identity.
C4_TrackerMatching == [][C4_Step]_vars

\* tracks 0 and 1 exist because (130,140) is exactly 50 px from (100,100); the
\* detection at (105,102) is within reach of both and took the nearer, track 0
C4_Witness ==
    /\ op = "matched"
    /\ detections = <<Tagged(Detection(<<95, 92, 115, 112>>), 0)>>
    /\ DOMAIN tracked_vehicles = {0, 1}
    /\ tracked_vehicles[0].center = <<105, 102>>
    /\ tracked_vehicles[1].center = <<130, 140>>

\* C5: identities are handed out as 0, 1, 2, ... (each the previous maximum
\* plus one), never twice, every live track and every tagged detection holds
\* an identity below next_vehicle_id, also after tracks were evicted.
C5_IdentitiesUniqueIncreasing ==
    /\ \A i \in 1..Len(id_log) :
          /\ id_log[i] = i - 1
          /\ \A j \in 1..(i - 1) : id_log[j] < id_log[i]
    /\ NoDuplicates(id_log)
    /\ next_vehicle_id = Len(id_log)
    /\ \A id \in DOMAIN tracked_vehicles :
          id < next_vehicle_id /\ id \in Range(id_log)
    /\ \A i \in 1..Len(detections) : detections[i].id < next_vehicle_id

\* track 0 was evicted, and the track created afterwards is track 1
C5_Witness ==
    /\ op = "created"
    /\ DOMAIN tracked_vehicles = {1}
    /\ id_log = <<0, 1>>
    /\ detections = <<Tagged(Detection(<<90, 90, 110, 110>>), 1)>>

\* what C6 says of a cleanup_tracks step; the eviction window of
\* TRACKING_MAX_FRAMES_MISSING / 30 seconds is TRACKING_MAX_FRAMES_MISSING ticks
C6_Step ==
    op' = "cleanup" =>
        /\ DOMAIN tracked_vehicles' =
              {id \in DOMAIN tracked_vehicles :
                  now - tracked_vehicles[id].last_seen <= TRACKING_MAX_FRAMES_MISSING}
        /\ \A id \in DOMAIN tracked_vehicles' :
              tracked_vehicles'[id] = tracked_vehicles[id]
        /\ next_vehicle_id' = next_vehicle_id
        /\ now' = now

\* C6: cleanup removes exactly the tracks older than the eviction window and
\* leaves the other tracks and the identity counter as they were.
C6_CleanupRemovesExactlyExpired == [][C6_Step]_vars

\* at tick 11 track 0, last seen at 0, is gone and track 1, seen at 5, is kept
C6_Witness ==
    /\ op = "cleanup"
    /\ now = 11
    /\ next_vehicle_id = 2
    /\ DOMAIN tracked_vehicles = {1}
    /\ tracked_vehicles[1].last_seen = 5

\* what C20 says of one step of the detector
C20_Step ==
    /\ (DOMAIN tracked_vehicles) \ (DOMAIN tracked_vehicles') # {} => op' = "cleanup"
    /\ Len(detections') = Len(detections) + 1 =>
          LET id == detections'[Len(detections')].id
          IN  /\ DOMAIN tracked_vehicles \subseteq DOMAIN tracked_vehicles'
              /\ \A other \in (DOMAIN tracked_vehicles) \ {id} :
                    tracked_vehicles'[other] = tracked_vehicles[other]
              /\ IF id \in DOMAIN tracked_vehicles
                 THEN /\ DOMAIN tracked_vehicles' = DOMAIN tracked_vehicles
                      /\ next_vehicle_id' = next_vehicle_id
                      /\ tracked_vehicles'[id].frames_missing =
                            tracked_vehicles[id].frames_missing
                 ELSE /\ DOMAIN tracked_vehicles' = (DOMAIN tracked_vehicles) \cup {id}
                      /\ Cardinality(DOMAIN tracked_vehicles') =
                            Cardinality(DOMAIN tracked_vehicles) + 1
                      /\ next_vehicle_id' = next_vehicle_id + 1

\* C20: only cleanup_tracks removes a track.  Assigning an identity removes
\* none: on a match the matched track alone changes, and only in its centre,
\* box and last-seen time, and the identity counter stays; without a match
\* exactly one track is added and the counter grows by 1; every other track
\* is as it was.
C20_AssignmentDestroysNoTrack == [][C20_Step]_vars

\* At tick 11 a detection was matched to track 0 while track 1, last seen at
\* tick 0 and by then older than the eviction window, is still there.
C20_Witness ==
    /\ op = "matched"
    /\ now = 11
    /\ DOMAIN tracked_vehicles = {0, 1}
    /\ tracked_vehicles[0].last_seen = 11
    /\ tracked_vehicles[1].last_seen = 0
    /\ next_vehicle_id = 2

\* C21: within one detect_vehicles call no two detections are tagged with the
\* same identity, so the detections of a frame hold as many distinct
\* identities as there are detections.
C21_DistinctIdentitiesPerFrame ==
    /\ \A i, j \in 1..Len(detections) :
          i # j => detections[i].id # detections[j].id
    /\ Cardinality({detections[i].id : i \in 1..Len(detections)}) = Len(detections)

(***************************************************************************)
(* VehicleDetector.detect_vehicles as one call                             *)
(***************************************************************************)
\* The loop over the vehicle boxes of one frame on the tracker state
\* (tracks, next_id) at time t: the new tracker state and the detections
\* returned, each with its identity.
RECURSIVE detect_vehicles(_, _, _, _)
detect_vehicles(tracks, next_id, frame, t) ==
    IF Len(frame) = 0
    THEN [tracks |-> tracks, next_id |-> next_id, detections |-> <<>>]
    ELSE LET detection == Detection(Head(frame))
             r == _assign_tracking_id(tracks, next_id, detection, t)
             rest == detect_vehicles(r.tracks, r.next_id, Tail(frame), t)
         IN  [detections |-> <<Tagged(detection, r.id)>> \o rest.detections,
              tracks |-> rest.tracks, next_id |-> rest.next_id]

(***************************************************************************)
(* TrafficSignalController (signal_controller.py is not among the sources: *)
(* modelled from the specification, section 4.3)                           *)
(***************************************************************************)
Clamp(x, lo, hi) == IF x < lo THEN lo ELSE IF x > hi THEN hi ELSE x

\* the green time of a level: the table's value, clamped
GreenDuration(level) ==
    Clamp((IF level \in DOMAIN SIGNAL_TIMINGS THEN SIGNAL_TIMINGS[level]
           ELSE SIGNAL_TIMINGS.LOW).green,
          MIN_GREEN_DURATION, MAX_GREEN_DURATION)

YellowDuration == SIGNAL_TIMINGS.LOW.yellow

LevelOf(summary, d) ==
    IF \E i \in 1..Len(summary) : summary[i].direction = d
    THEN summary[CHOOSE i \in 1..Len(summary) : summary[i].direction = d].density
    ELSE "LOW"

\* the directions in their fixed order
DirectionOrder == <<"NORTH", "SOUTH", "EAST", "WEST">>

\* the fallback for missing data: a direction the summary does not hold is
\* planned as LOW with no vehicle
CompletedSummary(summary) ==
    LET missing == SelectSeq(DirectionOrder,
                             LAMBDA d : \A j \in 1..Len(summary) :
                                           summary[j].direction # d)
    IN  summary \o [i \in 1..Len(missing) |-> Item(missing[i], 0, "LOW")]

\* the direction that gets right-of-way after current: the first of the plan
\* that is another direction, or current when there is no other
NextDirection(summary, current) ==
    LET sequence == _calculate_optimal_sequence(CompletedSummary(summary))
        others == {i \in 1..Len(sequence) : sequence[i] # current}
    IN  IF others = {} THEN current
        ELSE sequence[CHOOSE i \in others : \A j \in others : i <= j]

\* durations are seconds, the clock ticks AssumedFps times a second
Elapsed(ctrl, t) == t - ctrl.phase_start >= ctrl.duration * AssumedFps

\* a switching bug: the direction that was active keeps its signal
ActivatedKeepingSignal(ctrl, summary, next, t) ==
    [ctrl EXCEPT !.active_direction = next,
                 !.phase = "GREEN",
                 !.phase_start = t,
                 !.duration = GreenDuration(LevelOf(summary, next)),
                 !.signals = [@ EXCEPT ![next] = "GREEN"]]

\* the controller after next got right-of-way at time t: the direction that
\* was active is RED, next is GREEN for the green time of its level
Activated(ctrl, summary, next, t) ==
    [ctrl EXCEPT !.active_direction = next,
                 !.phase = "GREEN",
                 !.phase_start = t,
                 !.duration = GreenDuration(LevelOf(summary, next)),
                 !.signals = [d \in Directions |->
                                 IF d = next THEN "GREEN"
                                 ELSE IF d = ctrl.active_direction THEN "RED"
                                 ELSE ctrl.signals[d]]]

\* a phase bug: a GREEN whose time is over goes to the next direction at once
UpdateSkippingYellow(ctrl, summary, t) ==
    LET seen == [ctrl EXCEPT !.summary = summary]
    IN  IF ctrl.active_direction = "NONE"
        THEN Activated(seen, summary, NextDirection(summary, "NONE"), t)
        ELSE IF Elapsed(ctrl, t)
        THEN [Activated(seen, summary,
                        NextDirection(summary, ctrl.active_direction), t)
                 EXCEPT !.cycle_count = @ + 1]
        ELSE seen

\* TrafficSignalController.update(traffic_summary) at time t; the summary is
\* kept for force_next_signal
ControllerUpdate(ctrl, summary, t) ==
    LET seen == [ctrl EXCEPT !.summary = summary]
    IN  IF ctrl.active_direction = "NONE"
        THEN Activated(seen, summary, NextDirection(summary, "NONE"), t)
        ELSE IF ctrl.phase = "GREEN" /\ Elapsed(ctrl, t)
        THEN [seen EXCEPT !.phase = "YELLOW", !.phase_start = t,
                          !.duration = YellowDuration,
                          !.signals = [@ EXCEPT ![ctrl.active_direction] = "YELLOW"]]
        ELSE IF ctrl.phase = "YELLOW" /\ Elapsed(ctrl, t)
        THEN [Activated(seen, summary,
                        NextDirection(summary, ctrl.active_direction), t)
                 EXCEPT !.cycle_count = @ + 1]
        ELSE seen

\* an override bug: the call waits for the minimum green time of the table
ForceAfterMinimumGreen(ctrl, t, bump) ==
    IF ctrl.phase = "GREEN"
       /\ t - ctrl.phase_start < SIGNAL_TIMINGS.LOW.min_green * AssumedFps
    THEN ctrl
    ELSE [Activated(ctrl, ctrl.summary,
                    NextDirection(ctrl.summary, ctrl.active_direction), t)
             EXCEPT !.cycle_count = @ + bump]

\* TrafficSignalController.force_next_signal() at time t: the phase ends at
\* once and the next direction of the latest summary gets right-of-way;
\* bump is what the call adds to the cycle count
ForceNextSignal(ctrl, t, bump) ==
    [Activated(ctrl, ctrl.summary,
               NextDirection(ctrl.summary, ctrl.active_direction), t)
        EXCEPT !.cycle_count = @ + bump]

(***************************************************************************)
(* WebTrafficProcessor.aggregate_results                                   *)
(***************************************************************************)
\* A result of process_direction_video holds average_vehicles, the average
\* rounded to two decimals, as a number of hundredths; a result of
\* process_direction_image holds vehicle_count.
IsVideoResult(result) == "average_vehicles" \in DOMAIN result

\* int(result['average_vehicles']): the fraction is cut off, towards zero
IntOfHundredths(h) == IF h >= 0 THEN h \div 100 ELSE -((-h) \div 100)

\* the loop that builds traffic_analysis
TrafficAnalysisOf(results) ==
    [i \in 1..Len(results) |->
        LET result == results[i]
            count == IF IsVideoResult(result)
                     THEN IntOfHundredths(result.average_vehicles)
                     ELSE result.vehicle_count
        IN  Item(result.direction, count, result.density_level)]

\* config.SIGNAL_TIMINGS.get(density, config.SIGNAL_TIMINGS['LOW'])
TimingOf(density) ==
    IF density \in DOMAIN SIGNAL_TIMINGS THEN SIGNAL_TIMINGS[density]
    ELSE SIGNAL_TIMINGS.LOW

Recommendation(data, timing) ==
    [direction |-> data.direction,
     density_level |-> data.density,
     vehicle_count |-> data.count,
     green_duration |-> timing.green,
     yellow_duration |-> timing.yellow,
     total_duration |-> timing.green + timing.yellow]

\* a lookup bug: every direction gets the fallback (LOW) timing
RecommendationsWithLowTiming(analysis) ==
    [entries |-> [i \in 1..Len(analysis) |->
                    Recommendation(analysis[i], SIGNAL_TIMINGS.LOW)],
     optimal_sequence |-> _calculate_optimal_sequence(analysis)]

\* WebTrafficProcessor._generate_signal_recommendations: the entry of every
\* direction, and recommendations['optimal_sequence']
_generate_signal_recommendations(analysis) ==
    [entries |-> [i \in 1..Len(analysis) |->
                    Recommendation(analysis[i], TimingOf(analysis[i].density))],
     optimal_sequence |-> _calculate_optimal_sequence(analysis)]

\* the lookups result['vehicle_count'] and result['density_level'] raise
\* KeyError on a result that lacks the key
AggregateRaises(results) ==
    \E i \in 1..Len(results) :
        \/ ~IsVideoResult(results[i]) /\ "vehicle_count" \notin DOMAIN results[i]
        \/ "density_level" \notin DOMAIN results[i]

\* a join-point bug: controller.update is invoked once per direction, each
\* time on that direction's summary alone
AggregateUpdatingPerDirection(results) ==
    LET analysis == TrafficAnalysisOf(results)
        generated == _generate_signal_recommendations(analysis)
    IN  IF AggregateRaises(results)
        THEN UNCHANGED <<traffic_analysis, controller, update_log,
                         recommendations, optimal_sequence>>
        ELSE /\ traffic_analysis' = analysis
             /\ controller' = ControllerUpdate(controller, analysis, now)
             /\ update_log' = update_log \o [i \in 1..Len(analysis) |-> <<analysis[i]>>]
             /\ recommendations' = generated.entries
             /\ optimal_sequence' = generated.optimal_sequence

\* aggregate_results(results) on a processor whose controller is the variable
\* controller; a KeyError leaves before controller.update is reached
AggregateResults(results) ==
    LET analysis == TrafficAnalysisOf(results)
        generated == _generate_signal_recommendations(analysis)
    IN  IF AggregateRaises(results)
        THEN UNCHANGED <<traffic_analysis, controller, update_log,
                         recommendations, optimal_sequence>>
        ELSE /\ traffic_analysis' = analysis
             /\ controller' = ControllerUpdate(controller, analysis, now)
             /\ update_log' = Append(update_log, analysis)
             /\ recommendations' = generated.entries
             /\ optimal_sequence' = generated.optimal_sequence

(***************************************************************************)
(* Specification of the aggregator: the results of one to four directions, *)
(* all of videos or all of images, in any insertion order, are aggregated  *)
(* once on a new processor.                                                *)
(***************************************************************************)
ResultCounts == {3, 20}

\* averages with hundredths, in hundredths
ResultAverages == {350, 2099}

ImageResult(d, count, level) ==
    [direction |-> d, vehicle_count |-> count, density_level |-> level]

VideoResult(d, hundredths, level) ==
    [direction |-> d, average_vehicles |-> hundredths, density_level |-> level]

InitAggregate ==
    /\ op = "init"
    /\ \E D \in (SUBSET Directions) \ {{}} :
         \E o \in Orderings(D) :
           \E l \in [1..Cardinality(D) -> Levels] :
             \/ \E c \in [1..Cardinality(D) -> ResultCounts] :
                  direction_results =
                      [i \in 1..Cardinality(D) |-> ImageResult(o[i], c[i], l[i])]
             \/ \E a \in [1..Cardinality(D) -> ResultAverages] :
                  direction_results =
                      [i \in 1..Cardinality(D) |-> VideoResult(o[i], a[i], l[i])]
    /\ recommendations = <<>>
    /\ controller = FreshController
    /\ update_log = <<>>
    /\ IdleClassify /\ IdlePlan /\ IdleTracker /\ IdleWeb /\ IdleBatch /\ IdleLive

Aggregate ==
    /\ op = "init"
    /\ AggregateResults(direction_results)
    /\ op' = IF AggregateRaises(direction_results) THEN "error" ELSE "aggregate"
    /\ UNCHANGED <<direction_results, classifyVars, liveVars, trackerVars, webVars, batchVars>>

NextAggregate == Aggregate

SpecAggregate == InitAggregate /\ [][NextAggregate]_vars

\* the count the claim speaks of: the vehicle count of an image result, the
\* whole part of the average of a video result
CountOf(result) ==
    IF IsVideoResult(result) THEN IntOfHundredths(result.average_vehicles)
    ELSE result.vehicle_count

\* C8: aggregate handles one to four directions without error: it yields one
\* entry per direction present and none for any other, each with the
\* direction's level and count, the green and yellow time of that level in
\* the timing table and their sum as total; the ordering lists exactly the
\* directions present.
C8_AggregatePartialInput ==
    /\ op # "error"
    /\ op = "aggregate" =>
        /\ Len(direction_results) \in 1..4
        /\ Len(recommendations) = Len(direction_results)
        /\ \A i \in 1..Len(direction_results) :
              LET result == direction_results[i]
                  entry == recommendations[i]
              IN  /\ entry.direction = result.direction
                  /\ entry.density_level = result.density_level
                  /\ entry.vehicle_count = CountOf(result)
                  /\ entry.green_duration = SIGNAL_TIMINGS[result.density_level].green
                  /\ entry.yellow_duration = SIGNAL_TIMINGS[result.density_level].yellow
                  /\ entry.total_duration = entry.green_duration + entry.yellow_duration
        /\ NoDuplicates([i \in 1..Len(recommendations) |-> recommendations[i].direction])
        /\ Len(optimal_sequence) = Len(direction_results)
        /\ Range(optimal_sequence) =
              {direction_results[i].direction : i \in 1..Len(direction_results)}

\* EAST alone, HIGH with 20 vehicles: 45 s green, 3 s yellow, 48 s in all
C8_Witness ==
    /\ op = "aggregate"
    /\ direction_results = <<ImageResult("EAST", 20, "HIGH")>>
    /\ recommendations =
          <<[direction |-> "EAST", density_level |-> "HIGH", vehicle_count |-> 20,
             green_duration |-> 45, yellow_duration |-> 3, total_duration |-> 48]>>
    /\ optimal_sequence = <<"EAST">>

(***************************************************************************)
(* WebTrafficProcessor.process_direction_image and process_direction_video *)
(***************************************************************************)
\* the identities of a list of detections (history, for the claims)
IdsOf(dets) == {dets[i].id : i \in 1..Len(dets)}

\* process_direction_image on a readable image whose vehicle boxes are frame:
\* the result and the tracker state the shared detector is left in
process_direction_image(tracks, next_id, frame, direction, t) ==
    LET found == detect_vehicles(tracks, next_id, frame, t)
        count == Len(found.detections)
    IN  [result |-> [direction |-> direction,
                     vehicle_count |-> count,
                     density_level |-> _classify_density(count),
                     detections |-> found.detections],
         tracks |-> found.tracks,
         next_id |-> found.next_id]

DefaultMaxFrames == 100

\* the capture just opened on a video of total_frames frames, and the locals
\* of the loop before its first pass; ids is history
OpenedVideo(direction, total_frames, max_frames) ==
    [direction |-> direction,
     frames_left |-> total_frames,
     max_frames |-> max_frames,
     frame_skip |-> IF total_frames \div max_frames > 1
                    THEN total_frames \div max_frames ELSE 1,
     frame_count |-> 0,
     counts_sum |-> 0,
     counts_len |-> 0,
     counts_max |-> 0,
     all_detections |-> 0,
     ids |-> {}]

\* the loop goes on: frame_count < max_frames and cap.read() delivers a frame
VideoLoopRuns(loop) ==
    loop.frame_count < loop.max_frames /\ loop.frames_left > 0

\* one pass of the loop on the frame read, whose vehicle boxes are frame
VideoPass(loop, tracks, next_id, frame, t) ==
    IF loop.frame_count % loop.frame_skip # 0
    THEN [loop |-> [loop EXCEPT !.frames_left = @ - 1, !.frame_count = @ + 1],
          tracks |-> tracks, next_id |-> next_id]
    ELSE LET found == detect_vehicles(tracks, next_id, frame, t)
             count == Len(found.detections)
         IN  [loop |-> [loop EXCEPT !.frames_left = @ - 1,
                                    !.frame_count = @ + 1,
                                    !.counts_sum = @ + count,
                                    !.counts_len = @ + 1,
                                    !.counts_max = IF count > @ THEN count ELSE @,
                                    !.all_detections = @ + count,
                                    !.ids = @ \cup IdsOf(found.detections)],
              tracks |-> found.tracks, next_id |-> found.next_id]

\* round(avg_vehicles, 2) of the average sum / len, in hundredths: the nearest
\* hundredth, a tie going to the even one (numpy rounds rint(x * 100) / 100)
RoundedHundredths(sum, len) ==
    IF len = 0 THEN 0
    ELSE LET q == (100 * sum) \div len
             r == (100 * sum) % len
         IN  IF 2 * r > len THEN q + 1
             ELSE IF 2 * r < len THEN q
             ELSE IF q % 2 = 0 THEN q ELSE q + 1

\* int(avg_vehicles)
IntOfAverage(sum, len) == IF len = 0 THEN 0 ELSE sum \div len

\* the result process_direction_video returns when its loop has ended
VideoResultOf(loop) ==
    [direction |-> loop.direction,
     total_frames_processed |-> loop.frame_count,
     average_vehicles |-> RoundedHundredths(loop.counts_sum, loop.counts_len),
     max_vehicles |-> loop.counts_max,
     density_level |-> _classify_density(IntOfAverage(loop.counts_sum, loop.counts_len)),
     all_detections |-> loop.all_detections,
     ids |-> loop.ids]

(***************************************************************************)
(* Specification of one direction: a new processor handles one image or    *)
(* one video, frame by frame, and aggregates the result.                   *)
(***************************************************************************)
\* k vehicles in a frame, as k boxes
FrameOf(k) == [i \in 1..k |-> <<90, 90, 110, 110>>]

ImageVehicleCounts == {0, 5, 6, 26}

FrameVehicleCounts == {5, 6}

VideoLengths == {0, 3, MaxFramesArgument}

MaxFramesArguments == {DefaultMaxFrames, MaxFramesArgument}

InitDirection ==
    /\ op = "init"
    /\ IdleTracker /\ IdleAggregate /\ IdleWeb /\ IdleBatch /\ IdleLive /\ IdleClassify /\ IdlePlan

ProcessDirectionImage ==
    /\ op = "init"
    /\ \E direction \in Directions, k \in ImageVehicleCounts :
         LET r == process_direction_image(tracked_vehicles, next_vehicle_id,
                                          FrameOf(k), direction, now)
         IN  /\ direction_results' = <<r.result>>
             /\ tracked_vehicles' = r.tracks
             /\ next_vehicle_id' = r.next_id
    /\ op' = "processed"
    /\ UNCHANGED <<now, boxes, detections, id_log, recommendations, controller,
                   update_log, video, classifyVars, liveVars, planVars, batchVars>>

\* cv2.imread returns None, or the capture does not open: ValueError
ProcessDirectionRaises ==
    /\ op = "init"
    /\ op' = "error"
    /\ UNCHANGED <<trackerVars, aggregateVars, webVars, classifyVars, liveVars, planVars,
                   batchVars>>

OpenVideo ==
    /\ op = "init"
    /\ \E direction \in Directions, total_frames \in VideoLengths,
          max_frames \in MaxFramesArguments :
         video' = OpenedVideo(direction, total_frames, max_frames)
    /\ op' = "video"
    /\ UNCHANGED <<trackerVars, aggregateVars, classifyVars, liveVars, planVars, batchVars>>

ReadFrame ==
    /\ op = "video"
    /\ VideoLoopRuns(video)
    /\ \E k \in FrameVehicleCounts :
         LET r == VideoPass(video, tracked_vehicles, next_vehicle_id, FrameOf(k), now)
         IN  /\ video' = r.loop
             /\ tracked_vehicles' = r.tracks
             /\ next_vehicle_id' = r.next_id
    /\ UNCHANGED <<op, now, boxes, detections, id_log, aggregateVars,
                   classifyVars, liveVars, planVars, batchVars>>

ReturnVideoResult ==
    /\ op = "video"
    /\ ~VideoLoopRuns(video)
    /\ direction_results' = <<VideoResultOf(video)>>
    /\ video' = "NONE"
    /\ op' = "processed"
    /\ UNCHANGED <<trackerVars, recommendations, controller, update_log,
                   classifyVars, liveVars, planVars, batchVars>>

AggregateDirection ==
    /\ op = "processed"
    /\ AggregateResults(direction_results)
    /\ op' = IF AggregateRaises(direction_results) THEN "error" ELSE "aggregate"
    /\ UNCHANGED <<direction_results, classifyVars, liveVars, trackerVars, webVars, batchVars>>

NextDirectionSpec ==
    \/ ProcessDirectionImage
    \/ ProcessDirectionRaises
    \/ OpenVideo
    \/ ReadFrame
    \/ ReturnVideoResult
    \/ AggregateDirection

SpecDirection == InitDirection /\ [][NextDirectionSpec]_vars

\* C9: in every recommendation entry built from a result of
\* process_direction_image or process_direction_video, the density level is
\* the level the classifier gives the entry's vehicle count.
C9_LevelMatchesCount ==
    op = "aggregate" =>
        \A i \in 1..Len(recommendations) :
            recommendations[i].density_level
                = _classify_density(recommendations[i].vehicle_count)

(***************************************************************************)
(* process_direction_video as one call                                     *)
(***************************************************************************)
\* the while loop over the frames the capture delivers
RECURSIVE VideoLoop(_, _, _, _, _)
VideoLoop(loop, tracks, next_id, frames, t) ==
    IF ~VideoLoopRuns(loop)
    THEN [loop |-> loop, tracks |-> tracks, next_id |-> next_id]
    ELSE LET r == VideoPass(loop, tracks, next_id, Head(frames), t)
         IN  VideoLoop(r.loop, r.tracks, r.next_id, Tail(frames), t)

\* process_direction_video on a capture that opens and delivers frames: the
\* result and the tracker state the shared detector is left in
process_direction_video(tracks, next_id, frames, direction, max_frames, t) ==
    LET ended == VideoLoop(OpenedVideo(direction, Len(frames), max_frames),
                           tracks, next_id, frames, t)
    IN  [result |-> VideoResultOf(ended.loop),
         tracks |-> ended.tracks,
         next_id |-> ended.next_id]

(***************************************************************************)
(* The batch flow of app.py: index, upload_file, process_simulation, reset *)
(***************************************************************************)
\* a direction upload_file does not accept
InvalidDirection == "UP"

\* the extensions upload_file accepts, as the file type they stand for
FileTypes == {"video", "image"}

\* the vehicle boxes of the frames the uploaded files hold
NearFrame == <<<<90, 90, 110, 110>>>>

OtherFrame == <<<<95, 92, 115, 112>>, <<490, 490, 510, 510>>>>

\* a file cv2 cannot read or open
Unreadable(type) == [file_type |-> type, readable |-> FALSE, frames |-> <<>>]

Readable(type, frames) == [file_type |-> type, readable |-> TRUE, frames |-> frames]

UploadableFiles ==
    {Unreadable("image"),
     Readable("image", <<NearFrame>>),
     Readable("image", <<OtherFrame>>),
     Unreadable("video"),
     Readable("video", <<>>),
     Readable("video", <<NearFrame, OtherFrame>>),
     Unreadable("other")}

\* inference time of one direction, in ticks
ProcessingTimes == {0, TRACKING_MAX_FRAMES_MISSING + 1}

\* a storing bug: the file is added even when the direction has one
PutFileBesideOld(files, direction, file) ==
    Append(files, [direction |-> direction, file |-> file])

\* session['uploaded_files'][direction] = str(filepath)
PutFile(files, direction, file) ==
    IF \E i \in 1..Len(files) : files[i].direction = direction
    THEN [i \in 1..Len(files) |->
            IF files[i].direction = direction
            THEN [direction |-> direction, file |-> file] ELSE files[i]]
    ELSE Append(files, [direction |-> direction, file |-> file])

\* no request is under way: the handlers of one session run one after another
RequestEnded == request.pc \in {"none", "rejected", "failed", "done"}

\* the processor of an earlier request is gone when a handler starts, and
\* WebTrafficProcessor() builds one detector and one controller
NewProcessor ==
    /\ tracked_vehicles' = <<>>
    /\ next_vehicle_id' = 0
    /\ track_owner' = <<>>
    /\ controller' = FreshController
    /\ update_log' = <<>>
    /\ direction_results' = <<>>
    /\ recommendations' = <<>>
    /\ traffic_analysis' = <<>>
    /\ optimal_sequence' = <<>>

InitBatch ==
    /\ op = "init"
    /\ IdleBatch /\ IdleLive /\ IdleTracker /\ IdleAggregate /\ IdleWeb /\ IdleClassify /\ IdlePlan

\* index(): the uploads and the mode are popped
Index ==
    /\ RequestEnded
    /\ session' = [session EXCEPT !.uploaded_files = <<>>, !.processing_mode = "NONE"]
    /\ request' = NoRequest
    /\ NewProcessor
    /\ op' = "index"
    /\ UNCHANGED <<now, boxes, detections, id_log, video, classifyVars, liveVars>>

\* the answer of upload_file to the form it was sent; no locals of
\* process_simulation are alive
UploadAnswered(direction, file_type, status) ==
    [pc |-> "none",
     upload |-> [direction |-> direction, file_type |-> file_type],
     status |-> status]

\* the file types of the files that can be sent: the two the handler accepts
\* and the one it refuses by its extension
SentFileTypes == {f.file_type : f \in UploadableFiles}

\* upload_file(): a bad direction, a bad extension or a file of the other
\* type than the session's mode is answered with 400; else the mode is set
\* when the session has none and the file is saved and stored; when saving
\* raises the answer is 500 and the mode stays set
UploadFile ==
    /\ RequestEnded
    /\ \E direction \in Directions \cup {InvalidDirection}, file_type \in SentFileTypes :
         IF \/ direction \notin Directions
            \/ file_type \notin FileTypes
            \/ /\ session.processing_mode # "NONE"
               /\ session.processing_mode # file_type
         THEN /\ session' = session
              /\ request' = UploadAnswered(direction, file_type, 400)
              /\ op' = "upload_rejected"
         ELSE \/ /\ session' = [session EXCEPT !.processing_mode = file_type]
                 /\ request' = UploadAnswered(direction, file_type, 500)
                 /\ op' = "upload_failed"
              \/ \E file \in {f \in UploadableFiles : f.file_type = file_type} :
                   /\ session' = [session EXCEPT
                                     !.processing_mode = file_type,
                                     !.uploaded_files = PutFile(@, direction, file)]
                   /\ request' = UploadAnswered(direction, file_type, 200)
                   /\ op' = "upload"
    /\ NewProcessor
    /\ UNCHANGED <<now, boxes, detections, id_log, video, classifyVars, liveVars>>

\* reset(): session.clear()
Reset ==
    /\ RequestEnded
    /\ session' = EmptySession
    /\ request' = NoRequest
    /\ NewProcessor
    /\ op' = "reset"
    /\ UNCHANGED <<now, boxes, detections, id_log, video, classifyVars, liveVars>>

\* process_simulation() up to its loop: 400 without uploads, else one
\* WebTrafficProcessor for the whole request
ProcessSimulation ==
    /\ RequestEnded
    /\ IF session.uploaded_files = <<>>
       THEN /\ request' = [pc |-> "rejected"]
            /\ op' = "process_rejected"
       ELSE /\ request' = [pc |-> "loop",
                           uploaded_files |-> session.uploaded_files,
                           processing_mode |-> IF session.processing_mode = "NONE"
                                               THEN "video"
                                               ELSE session.processing_mode,
                           position |-> 1]
            /\ op' = "process"
    /\ NewProcessor
    /\ UNCHANGED <<session, now, boxes, detections, id_log, video, classifyVars, liveVars>>

\* the identities of a result (history, for the claims)
ResultIds(result) ==
    IF IsVideoResult(result) THEN result.ids ELSE IdsOf(result.detections)

\* what processor.process_direction_video / process_direction_image returns
\* for a file the processor can read
ProcessFile(tracks, next_id, file, direction, mode, t) ==
    IF mode = "video"
    THEN process_direction_video(tracks, next_id, file.frames, direction,
                                 DefaultMaxFrames, t)
    ELSE process_direction_image(tracks, next_id, file.frames[1], direction, t)

\* one pass of the loop over uploaded_files.items(): a file that cannot be
\* read raises ValueError and the request ends with 500
ProcessDirection ==
    /\ request.pc = "loop"
    /\ request.position <= Len(request.uploaded_files)
    /\ \E elapsed \in ProcessingTimes :
         /\ now + elapsed <= MaxTime
         /\ now' = now + elapsed
    /\ LET entry == request.uploaded_files[request.position]
           mode == request.processing_mode
       IN  IF ~entry.file.readable \/ entry.file.file_type # mode
           THEN /\ request' = [request EXCEPT !.pc = "failed"]
                /\ op' = "process_failed"
                /\ UNCHANGED <<tracked_vehicles, next_vehicle_id, track_owner,
                               direction_results>>
           ELSE \E r \in {ProcessFile(tracked_vehicles, next_vehicle_id, entry.file,
                                      entry.direction, mode, now')} :
                    /\ tracked_vehicles' = r.tracks
                    /\ next_vehicle_id' = r.next_id
                    /\ track_owner' =
                          [id \in 0..(r.next_id - 1) |->
                              IF id \in DOMAIN track_owner THEN track_owner[id]
                              ELSE entry.direction]
                    /\ direction_results' = Append(direction_results, r.result)
                    /\ request' = [request EXCEPT !.position = @ + 1]
                    /\ op' = "direction"
    /\ UNCHANGED <<session, boxes, detections, id_log, recommendations, controller,
                   update_log, video, classifyVars, liveVars, planVars>>

\* process_simulation() after its loop: aggregate_results, and the results
\* are stored in the session
AggregateBatch ==
    /\ request.pc = "loop"
    /\ request.position > Len(request.uploaded_files)
    /\ AggregateResults(direction_results)
    /\ IF AggregateRaises(direction_results)
       THEN /\ request' = [request EXCEPT !.pc = "failed"]
            /\ session' = session
            /\ op' = "process_failed"
       ELSE /\ request' = [request EXCEPT !.pc = "done"]
            /\ session' = [session EXCEPT !.has_results = TRUE]
            /\ op' = "processed"
    /\ UNCHANGED <<direction_results, track_owner, classifyVars, liveVars, trackerVars, webVars>>

NextBatch ==
    \/ Index
    \/ UploadFile
    \/ Reset
    \/ ProcessSimulation
    \/ ProcessDirection
    \/ AggregateBatch

SpecBatch == InitBatch /\ [][NextBatch]_vars

\* the identities a new detector gives the detections of one uploaded file
IdsAlone(entry, mode) ==
    ResultIds(ProcessFile(<<>>, 0, entry.file, entry.direction, mode, 0).result)

\* C7: in a batch request the identities of a direction's detections are
\* those a fresh tracker would give that direction's input alone, and each of
\* them names a track created by a detection of the same direction.
C7_TrackerNotSharedAcrossDirections ==
    request.pc \in {"loop", "failed", "done"} =>
        \A i \in 1..Len(direction_results) :
            LET result == direction_results[i]
            IN  /\ \A id \in ResultIds(result) : track_owner[id] = result.direction
                /\ ResultIds(result) =
                      IdsAlone(request.uploaded_files[i], request.processing_mode)

SummaryDirections(summary) == {summary[i].direction : i \in 1..Len(summary)}

\* the update of a request is the join point: it happened after a result of
\* every uploaded direction existed, on a summary of exactly those directions
UpdateIsJoinPoint ==
    update_log # <<>> =>
        /\ Len(update_log) = 1
        /\ request.pc = "done"
        /\ Len(direction_results) = Len(request.uploaded_files)
        /\ SummaryDirections(update_log[1]) =
              SummaryDirections(request.uploaded_files)
        /\ SummaryDirections(update_log[1]) = SummaryDirections(direction_results)

\* C10 as stated: every processing request that has ended invoked
\* controller.update exactly once, at the join point.
C10_UpdateExactlyOncePerRequest ==
    /\ UpdateIsJoinPoint
    /\ request.pc \in {"rejected", "failed", "done"} => Len(update_log) = 1

\* C10, amended: a request that processed every uploaded direction invoked
\* controller.update exactly once, at the join point; a request that is
\* rejected or fails, and a request still in its loop, invoked it not at all.
C10_UpdateOnceAfterAllResults ==
    /\ UpdateIsJoinPoint
    /\ request.pc = "done" => Len(update_log) = 1
    /\ request.pc \in {"rejected", "failed", "loop"} => update_log = <<>>

\* a request of three directions has ended with one update
C10_Witness ==
    /\ request.pc = "done"
    /\ Len(direction_results) = 3
    /\ Len(update_log) = 1
    /\ SummaryDirections(update_log[1]) = {"NORTH", "SOUTH", "EAST"}

(***************************************************************************)
(* Specification of the signal controller: any sequence of update and      *)
(* force_next_signal calls, on any summary, as time passes.                *)
(***************************************************************************)
\* the directions the summaries of the calls hold
SummaryDirectionSets ==
    {{}, {"EAST"}, {"NORTH", "SOUTH"}, {"NORTH", "SOUTH", "WEST"}, Directions}

\* the summary of the directions D: busy is MEDIUM with 8 vehicles, every
\* other direction LOW with 2
SummaryOf(D, busy) ==
    LET present == SelectSeq(DirectionOrder, LAMBDA d : d \in D)
    IN  [i \in 1..Len(present) |->
            IF present[i] = busy THEN Item(present[i], 8, "MEDIUM")
            ELSE Item(present[i], 2, "LOW")]

\* seconds that pass between two calls
ClockSteps == {3, 15}

InitController ==
    /\ op = "init"
    /\ IdleAggregate /\ IdleTracker /\ IdleWeb /\ IdleBatch /\ IdleLive /\ IdleClassify /\ IdlePlan

\* main.py, run: self.controller.update(traffic_analysis)
Update ==
    /\ \E D \in SummaryDirectionSets, busy \in Directions \cup {"NONE"} :
         /\ busy \in D \cup {"NONE"}
         /\ controller' = ControllerUpdate(controller, SummaryOf(D, busy), now)
    /\ op' = "update"
    /\ UNCHANGED <<direction_results, recommendations, update_log, classifyVars, liveVars,
                   planVars, trackerVars, webVars, batchVars>>

\* main.py, run: self.controller.force_next_signal()
Force ==
    /\ controller.cycle_count < MaxCycles
    /\ \E bump \in {0, 1} :
         controller' = ForceNextSignal(controller, now, bump)
    /\ op' = "force"
    /\ UNCHANGED <<direction_results, recommendations, update_log, classifyVars, liveVars,
                   planVars, trackerVars, webVars, batchVars>>

\* time passes
ClockAdvances ==
    /\ \E seconds \in ClockSteps :
         /\ now + seconds * AssumedFps <= MaxSeconds * AssumedFps
         /\ now' = now + seconds * AssumedFps
    /\ op' = "clock"
    /\ UNCHANGED <<tracked_vehicles, next_vehicle_id, boxes, detections, id_log,
                   aggregateVars, classifyVars, liveVars, planVars, webVars, batchVars>>

NextController ==
    \/ Update
    \/ Force
    \/ ClockAdvances

SpecController == InitController /\ [][NextController]_vars

\* the directions whose signal is not RED
NonRed(ctrl) == {d \in Directions : ctrl.signals[d] # "RED"}

\* C11: after any sequence of update and force_next_signal calls at most one
\* direction is GREEN or YELLOW, it is the active one in its phase, and every
\* other direction is RED.
C11_MutualExclusion ==
    /\ \A d \in Directions : controller.signals[d] \in {"GREEN", "YELLOW", "RED"}
    /\ Cardinality(NonRed(controller)) <= 1
    /\ NonRed(controller) \subseteq {controller.active_direction}
    /\ \A d \in NonRed(controller) : controller.signals[d] = controller.phase

\* right-of-way has passed from NORTH to SOUTH and on to EAST, now YELLOW
C11_Witness ==
    /\ controller.active_direction = "EAST"
    /\ controller.signals = [d \in Directions |->
                                IF d = "EAST" THEN "YELLOW" ELSE "RED"]
    /\ controller.cycle_count = 2

\* the step of one update call of a controller with an active direction
C12_Step ==
    (op' = "update" /\ controller.active_direction # "NONE") =>
        LET before == controller
            after == controller'
            active == before.active_direction
        IN  /\ after.cycle_count >= before.cycle_count
            /\ before.phase \in {"GREEN", "YELLOW"}
            /\ (before.phase = "GREEN" /\ ~Elapsed(before, now)) =>
                  /\ after.active_direction = active
                  /\ after.signals = before.signals
                  /\ after.signals[active] = "GREEN"
                  /\ after.phase_start = before.phase_start
                  /\ after.cycle_count = before.cycle_count
            /\ (before.phase = "GREEN" /\ Elapsed(before, now)) =>
                  /\ after.active_direction = active
                  /\ after.signals[active] = "YELLOW"
                  /\ after.phase_start = now
                  /\ after.duration = SIGNAL_TIMINGS.LOW.yellow
                  /\ after.cycle_count = before.cycle_count
            /\ (before.phase = "YELLOW" /\ ~Elapsed(before, now)) =>
                  /\ after.active_direction = active
                  /\ after.signals = before.signals
                  /\ after.signals[active] = "YELLOW"
                  /\ after.phase_start = before.phase_start
                  /\ after.cycle_count = before.cycle_count
            /\ (before.phase = "YELLOW" /\ Elapsed(before, now)) =>
                  /\ after.signals[active] = "RED"
                  /\ after.active_direction # active
                  /\ after.signals[after.active_direction] = "GREEN"
                  /\ after.phase_start = now
                  /\ after.cycle_count = before.cycle_count + 1

\* C12: under update a GREEN direction stays GREEN until its green time has
\* passed and then turns YELLOW; a YELLOW direction stays YELLOW until the
\* yellow time has passed, then it turns RED, another direction turns GREEN
\* and the cycle count grows by 1; no other update changes the cycle count.
C12_PhaseProgression == [][C12_Step]_vars

\* NORTH had 15 s of GREEN and 3 s of YELLOW, then SOUTH got GREEN
C12_Witness ==
    /\ op = "update"
    /\ now = 18 * AssumedFps
    /\ controller.active_direction = "SOUTH"
    /\ controller.phase = "GREEN"
    /\ controller.phase_start = now
    /\ controller.cycle_count = 1

\* the directions the controller plans over
PresentDirections(ctrl) == SummaryDirections(CompletedSummary(ctrl.summary))

\* the step of one force_next_signal call
C13_Step ==
    op' = "force" =>
        /\ controller'.phase_start = now
        /\ controller'.phase = "GREEN"
        /\ controller'.signals[controller'.active_direction] = "GREEN"
        /\ \/ controller'.active_direction # controller.active_direction
           \/ Cardinality(PresentDirections(controller)) = 1
        /\ controller'.active_direction # controller.active_direction =>
              \A d \in Directions \ {controller'.active_direction} :
                  controller'.signals[d] = "RED"

\* C13: force_next_signal ends the phase at once, whatever time has passed,
\* and the direction active afterwards is another one, unless only one
\* direction is present.
C13_ForceNextSignal == [][C13_Step]_vars

\* a GREEN that began at time 0 was ended at time 0, before any minimum
C13_Witness ==
    /\ op = "force"
    /\ now = 0
    /\ controller.summary # <<>>
    /\ controller.active_direction # "NONE"
    /\ controller.phase_start = 0

\* C14: every green time issued, in a recommendation entry or for the active
\* direction, lies within MIN_GREEN_DURATION..MAX_GREEN_DURATION; in the
\* configured table MIN_GREEN_DURATION <= min_green <= green <=
\* MAX_GREEN_DURATION for every level, so clamping changes no table value.
C14_GreenDurationsWithinLimits ==
    /\ \A i \in 1..Len(recommendations) :
          recommendations[i].green_duration
              \in MIN_GREEN_DURATION..MAX_GREEN_DURATION
    /\ controller.phase = "GREEN" =>
          controller.duration \in MIN_GREEN_DURATION..MAX_GREEN_DURATION
    /\ \A level \in Levels :
          /\ MIN_GREEN_DURATION <= SIGNAL_TIMINGS[level].min_green
          /\ SIGNAL_TIMINGS[level].min_green <= SIGNAL_TIMINGS[level].green
          /\ SIGNAL_TIMINGS[level].green <= MAX_GREEN_DURATION
          /\ GreenDuration(level) = SIGNAL_TIMINGS[level].green

\* a CRITICAL direction was recommended 60 s and got right-of-way for 60 s
C14_Witness ==
    /\ op = "aggregate"
    /\ \E i \in 1..Len(recommendations) :
          /\ recommendations[i].density_level = "CRITICAL"
          /\ recommendations[i].green_duration = 60
          /\ controller.active_direction = recommendations[i].direction
    /\ controller.phase = "GREEN"
    /\ controller.duration = 60

(***************************************************************************)
(* Specification of invalid input: the classifier on a negative count, the *)
(* aggregator on results with a negative count or an unknown level, the    *)
(* planner on an empty summary or on an unknown level.                     *)
(***************************************************************************)
\* a density level outside the table
UnknownLevel == "SEVERE"

InvalidResultCounts == {-3, 3}

\* a negative average with hundredths, in hundredths
InvalidResultAverages == {-350}

InitInvalid ==
    /\ op = "init"
    /\ density_level = "NONE"
    /\ optimal_sequence = <<>>
    /\ recommendations = <<>>
    /\ controller = FreshController
    /\ update_log = <<>>
    /\ IdleTracker /\ IdleWeb /\ IdleBatch /\ IdleLive
    /\ \/ /\ vehicle_count \in (0 - MaxCount)..(0 - 1)
          /\ direction_results = <<>>
          /\ traffic_analysis = <<>>
       \/ /\ vehicle_count = 0
          /\ traffic_analysis = <<>>
          /\ \E D \in {S \in SUBSET Directions : Cardinality(S) \in 1..2} :
               \E o \in Orderings(D) :
                 \E l \in [1..Cardinality(D) -> Levels \cup {UnknownLevel}] :
                   \/ \E c \in [1..Cardinality(D) -> InvalidResultCounts] :
                        direction_results =
                            [i \in 1..Cardinality(D) |-> ImageResult(o[i], c[i], l[i])]
                   \/ \E a \in [1..Cardinality(D) -> InvalidResultAverages] :
                        direction_results =
                            [i \in 1..Cardinality(D) |-> VideoResult(o[i], a[i], l[i])]
       \/ /\ vehicle_count = 0
          /\ direction_results = <<>>
          /\ \E D \in {S \in SUBSET Directions : Cardinality(S) \in 1..2} :
               \E o \in Orderings(D) :
                 \E l \in [1..Cardinality(D) -> Levels \cup {UnknownLevel}] :
                   traffic_analysis = [i \in 1..Cardinality(D) |-> Item(o[i], 3, l[i])]

NextInvalid ==
    \/ Classify
    \/ Plan
    \/ Aggregate

SpecInvalid == InitInvalid /\ [][NextInvalid]_vars

\* C15: a negative count is rejected: the classifier does not return a level
\* for it, and the aggregator does not return recommendations for results
\* that hold one.
C15_NegativeCountRejected ==
    /\ vehicle_count < 0 => (op # "classify" /\ density_level \notin Levels)
    /\ (\E i \in 1..Len(direction_results) : CountOf(direction_results[i]) < 0) =>
          (op # "aggregate" /\ recommendations = <<>>)

\* C16: a level outside LOW, MEDIUM, HIGH, CRITICAL is rejected: the
\* aggregator does not return recommendations (with the LOW timings) for a
\* result that holds one, and the planner does not rank a summary that holds
\* one.
C16_UnknownLevelRejected ==
    /\ (\E i \in 1..Len(direction_results) :
            direction_results[i].density_level \notin Levels) =>
          (op # "aggregate" /\ recommendations = <<>>)
    /\ (op = "plan" /\ optimal_sequence # <<>>) =>
          \A i \in 1..Len(traffic_analysis) :
              traffic_analysis[i].density \in Levels

\* C17: the planner rejects an empty summary: it does not return an ordering
\* for it.
C17_EmptySummaryRejected ==
    op = "plan" => traffic_analysis # <<>>

(***************************************************************************)
(* The live loop of main.py: TrafficManagementSystem.run and cleanup.      *)
(* live.pc is the place the main thread is at:                             *)
(*   "loop"       the top of the while loop                                *)
(*   "detect"     a frame was read and is to be processed                  *)
(*   "update"     detect_vehicles and analyze_traffic have returned        *)
(*   "in_update"  controller.update was entered and has not returned       *)
(*   "periodic"   controller.update has returned                           *)
(*   "key"        the key handling at the end of the pass                  *)
(*   "cleanup"    cleanup was entered, the capture is not yet released     *)
(*   "done"       run was left                                             *)
(***************************************************************************)
PROCESS_EVERY_N_FRAMES == 2

\* if self.frame_count % 30 == 0: self.detector.cleanup_tracks()
CleanupEveryFrames == 30

\* the vehicle boxes of the frames the capture delivers
LiveFrames == {<<>>, NearFrame}

\* what wait_key returns: one of the three keys of the loop, or another value
Keys == {"q", "s", "p", "other"}

\* TrafficAnalyzer.analyze_traffic (traffic_analyzer.py is not among the
\* sources): the summary of the four directions, the detections of the frame
\* counted in the first zone
AnalyzeTraffic(dets) ==
    [i \in 1..Len(DirectionOrder) |->
        LET count == IF i = 1 THEN Len(dets) ELSE 0
        IN  Item(DirectionOrder[i], count, _classify_density(count))]

\* the state run starts in, after __init__
StartedRun(display) ==
    [pc |-> "loop", display |-> display, paused |-> FALSE,
     frame_count |-> 0, frame_skip_counter |-> 0, frame |-> <<>>,
     traffic_analysis |-> <<>>, active_tracks |-> 0, keys |-> 0,
     \* history: why the loop stopped, whether the controller is inside
     \* update, whether a detector or controller call began after the stop,
     \* and how often the capture was released
     stop |-> "none", in_update |-> FALSE, late_calls |-> FALSE, releases |-> 0]

InitLive ==
    /\ op = "init"
    /\ \E display \in BOOLEAN : live = StartedRun(display)
    /\ IdleTracker /\ IdleAggregate /\ IdleWeb /\ IdleBatch /\ IdleClassify /\ IdlePlan

InTry == live.pc \in {"loop", "detect", "update", "in_update", "periodic", "key"}

\* ret, frame = self.cap.read(), the end of the stream, the frame counters
\* and the frame skipping
CapRead ==
    /\ live.pc = "loop"
    /\ ~live.paused
    /\ \/ /\ live' = [live EXCEPT !.pc = "cleanup", !.stop = "end"]
          /\ op' = "end_of_stream"
       \/ /\ live.frame_count < MaxLiveFrames
          /\ \E frame \in LiveFrames :
               live' = [live EXCEPT
                          !.frame_count = @ + 1,
                          !.frame_skip_counter = @ + 1,
                          !.frame = frame,
                          !.pc = IF (live.frame_skip_counter + 1)
                                      % PROCESS_EVERY_N_FRAMES # 0
                                 THEN "loop" ELSE "detect"]
          /\ op' = "read"
    /\ UNCHANGED <<classifyVars, planVars, trackerVars, aggregateVars, webVars, batchVars>>

\* if not paused: is skipped
SkipWhilePaused ==
    /\ live.pc = "loop"
    /\ live.paused
    /\ live' = [live EXCEPT !.pc = "key"]
    /\ op' = "paused"
    /\ UNCHANGED <<classifyVars, planVars, trackerVars, aggregateVars, webVars, batchVars>>

\* detections = self.detector.detect_vehicles(frame) and
\* traffic_analysis = self.analyzer.analyze_traffic(detections)
LiveDetect ==
    /\ live.pc = "detect"
    /\ \E r \in {detect_vehicles(tracked_vehicles, next_vehicle_id, live.frame, now)} :
         /\ r.next_id <= MaxVehicleIds
         /\ tracked_vehicles' = r.tracks
         /\ next_vehicle_id' = r.next_id
         /\ detections' = r.detections
         /\ live' = [live EXCEPT !.pc = "update",
                                 !.traffic_analysis = AnalyzeTraffic(r.detections),
                                 !.late_calls = @ \/ live.stop # "none"]
    /\ op' = "detect_vehicles"
    /\ UNCHANGED <<now, boxes, id_log, classifyVars, planVars, aggregateVars,
                   webVars, batchVars>>

\* a step of the pass raises: model.predict inside detect_vehicles fails; run
\* has no except clause for it, the finally clause runs
StepRaises ==
    /\ live.pc = "detect"
    /\ live' = [live EXCEPT !.pc = "cleanup", !.stop = "raise"]
    /\ op' = "raise"
    /\ UNCHANGED <<classifyVars, planVars, trackerVars, aggregateVars, webVars, batchVars>>

\* self.controller.update(traffic_analysis) is entered
BeginUpdate ==
    /\ live.pc = "update"
    /\ live' = [live EXCEPT !.pc = "in_update", !.in_update = TRUE,
                            !.late_calls = @ \/ live.stop # "none"]
    /\ op' = "update"
    /\ UNCHANGED <<classifyVars, planVars, trackerVars, aggregateVars, webVars, batchVars>>

\* controller.update returns, and detector.get_stats is read
EndUpdate ==
    /\ live.pc = "in_update"
    /\ controller' = ControllerUpdate(controller, live.traffic_analysis, now)
    /\ live' = [live EXCEPT !.pc = "periodic", !.in_update = FALSE,
                            !.active_tracks = Cardinality(DOMAIN tracked_vehicles)]
    /\ op' = "updated"
    /\ UNCHANGED <<direction_results, recommendations, update_log, classifyVars,
                   planVars, trackerVars, webVars, batchVars>>

\* if self.frame_count % 30 == 0: self.detector.cleanup_tracks()
PeriodicCleanup ==
    /\ live.pc = "periodic"
    /\ tracked_vehicles' =
          IF live.frame_count % CleanupEveryFrames = 0
          THEN RemoveOldTracks(tracked_vehicles, now)
          ELSE tracked_vehicles
    /\ live' = [live EXCEPT !.pc = "key"]
    /\ op' = IF live.frame_count % CleanupEveryFrames = 0 THEN "cleanup_tracks"
             ELSE "no_cleanup"
    /\ UNCHANGED <<next_vehicle_id, now, boxes, detections, id_log, classifyVars,
                   planVars, aggregateVars, webVars, batchVars>>

\* the key handling: q leaves the loop, s forces the next signal, p toggles
\* paused; without a display the loop only sleeps
HandleKey ==
    /\ live.pc = "key"
    /\ IF ~live.display
       THEN /\ live' = [live EXCEPT !.pc = "loop"]
            /\ op' = "sleep"
            /\ UNCHANGED controller
       ELSE \E key \in Keys :
              /\ key \in {"s", "p"} => live.keys < MaxKeys
              /\ op' = key
              /\ IF key = "s"
                 THEN \E bump \in {0, 1} :
                        controller' = ForceNextSignal(controller, now, bump)
                 ELSE UNCHANGED controller
              /\ live' = [live EXCEPT
                            !.pc = IF key = "q" THEN "cleanup" ELSE "loop",
                            !.stop = IF key = "q" THEN "quit" ELSE @,
                            !.paused = IF key = "p" THEN ~@ ELSE @,
                            !.keys = IF key \in {"s", "p"} THEN @ + 1 ELSE @,
                            !.late_calls = @ \/ (key = "s" /\ live.stop # "none")]
    /\ UNCHANGED <<direction_results, recommendations, update_log, classifyVars,
                   planVars, trackerVars, webVars, batchVars>>

\* KeyboardInterrupt is raised in the main thread, between any two
\* instructions of the try block: the except clause prints, the finally
\* clause runs
Interrupt ==
    /\ InTry
    /\ live' = [live EXCEPT !.pc = "cleanup", !.stop = "interrupt"]
    /\ op' = "KeyboardInterrupt"
    /\ UNCHANGED <<classifyVars, planVars, trackerVars, aggregateVars, webVars, batchVars>>

\* cleanup: the statistics are printed and self.cap.release() is called
Cleanup ==
    /\ live.pc = "cleanup"
    /\ live' = [live EXCEPT !.pc = "done", !.releases = @ + 1]
    /\ op' = "release"
    /\ UNCHANGED <<classifyVars, planVars, trackerVars, aggregateVars, webVars, batchVars>>

\* KeyboardInterrupt is raised while cleanup prints the statistics, inside
\* the finally clause: it leaves cleanup and run
InterruptInCleanup ==
    /\ live.pc = "cleanup"
    /\ live' = [live EXCEPT !.pc = "done"]
    /\ op' = "KeyboardInterrupt"
    /\ UNCHANGED <<classifyVars, planVars, trackerVars, aggregateVars, webVars, batchVars>>

\* time passes between two passes of the loop
LiveTick ==
    /\ live.pc = "loop"
    /\ \E step \in TickSteps :
         /\ now + step <= MaxTime
         /\ now' = now + step
    /\ UNCHANGED <<op, tracked_vehicles, next_vehicle_id, boxes, detections, id_log,
                   nonTrackerVars>>

NextLive ==
    \/ CapRead
    \/ SkipWhilePaused
    \/ LiveDetect
    \/ StepRaises
    \/ BeginUpdate
    \/ EndUpdate
    \/ PeriodicCleanup
    \/ HandleKey
    \/ Interrupt
    \/ Cleanup
    \/ InterruptInCleanup
    \/ LiveTick

SpecLive == InitLive /\ [][NextLive]_vars

\* C18: once the loop stops (quit, end of stream, interrupt, a raising step)
\* no detector call, controller.update or force_next_signal begins, the
\* capture is released exactly once on every way out of run, and the
\* controller is not inside update when the loop stops.
C18_CleanCancellation ==
    /\ ~live.late_calls
    /\ live.releases <= 1
    /\ live.pc = "done" => live.releases = 1
    /\ live.stop # "none" => ~live.in_update

\* the age of a track, in ticks
Age(track, t) == t - track.last_seen

\* what C19 says of a step of the live loop
C19_Step ==
    /\ (live.pc = "detect" /\ live'.pc = "update") =>
          \A i \in 1..Len(detections') :
              detections'[i].id \in DOMAIN tracked_vehicles =>
                  Age(tracked_vehicles[detections'[i].id], now)
                      <= TRACKING_MAX_FRAMES_MISSING
    /\ (live.pc = "in_update" /\ live'.pc = "periodic") =>
          live'.active_tracks =
              Cardinality({id \in DOMAIN tracked_vehicles :
                              Age(tracked_vehicles[id], now)
                                  <= TRACKING_MAX_FRAMES_MISSING})

\* C19: no detection is matched to a track that was last seen longer ago than
\* the eviction window, and such a track is not counted among the active
\* tracks.
C19_StaleTracksAbsent == [][C19_Step]_vars

(***************************************************************************)
(* Specification of the aggregator on results as the processing functions  *)
(* return them: the level of an image result is the level of its count,    *)
(* the level of a video result is the level of int(avg_vehicles) while its *)
(* average is round(avg_vehicles, 2).                                      *)
(***************************************************************************)
\* the result process_direction_image returns for an image of count vehicles
ProducedImageResult(d, count) == ImageResult(d, count, _classify_density(count))

\* the result process_direction_video returns when the counts of its len
\* processed frames add up to sum
ProducedVideoResult(d, sum, len) ==
    VideoResult(d, RoundedHundredths(sum, len),
                _classify_density(IntOfAverage(sum, len)))

\* vehicle counts of images, on both sides of the level boundaries
ProducedCounts == {5, 6, 16, 26}

\* <<sum, len>> of videos: averages of 5.5 and 6, and 5.996 and 15.996, which
\* round to 6.00 and 16.00 while their whole part is 5 and 15
ProducedAverages == {<<11, 2>>, <<12, 2>>, <<1499, 250>>, <<3999, 250>>}

\* what one file can hold: an image with a count, or a video with a sum and
\* a number of processed frames
ProducedShapes ==
    {<<"image", c, 1>> : c \in ProducedCounts}
        \cup {<<"video", a[1], a[2]>> : a \in ProducedAverages}

ProducedResult(d, shape) ==
    IF shape[1] = "image" THEN ProducedImageResult(d, shape[2])
    ELSE ProducedVideoResult(d, shape[2], shape[3])

InitProduced ==
    /\ op = "init"
    /\ \E D \in (SUBSET Directions) \ {{}} :
         \E o \in Orderings(D) :
           \E shape \in [1..Cardinality(D) -> ProducedShapes] :
             direction_results =
                 [i \in 1..Cardinality(D) |-> ProducedResult(o[i], shape[i])]
    /\ recommendations = <<>>
    /\ controller = FreshController
    /\ update_log = <<>>
    /\ IdleClassify /\ IdlePlan /\ IdleTracker /\ IdleWeb /\ IdleBatch /\ IdleLive

NextProduced == Aggregate

SpecProduced == InitProduced /\ [][NextProduced]_vars

\* the count aggregate_results takes from the result of direction d
CountIn(results, d) ==
    CountOf(results[CHOOSE i \in 1..Len(results) : results[i].direction = d])

\* C22: on results produced by the processing functions the optimal sequence
\* of aggregate is ordered by vehicle count alone: of two consecutive
\* directions the first has at least the count of the second, and the first
\* direction of the sequence has the maximum count.
C22_SequenceOrderedByCount ==
    op = "aggregate" =>
        /\ Len(optimal_sequence) = Len(direction_results)
        /\ \A i \in 1..(Len(optimal_sequence) - 1) :
              CountIn(direction_results, optimal_sequence[i])
                  >= CountIn(direction_results, optimal_sequence[i + 1])
        /\ \A j \in 1..Len(direction_results) :
              CountIn(direction_results, optimal_sequence[1])
                  >= CountOf(direction_results[j])

\* EAST is HIGH with 16 vehicles, NORTH is MEDIUM with an average of 15.996
\* that counts as 16, SOUTH is LOW with an average of 5.996 that counts as 6
C22_Witness ==
    /\ op = "aggregate"
    /\ direction_results = <<VideoResult("SOUTH", 600, "LOW"),
                             VideoResult("NORTH", 1600, "MEDIUM"),
                             ImageResult("EAST", 16, "HIGH")>>
    /\ optimal_sequence = <<"EAST", "NORTH", "SOUTH">>

(***************************************************************************)
(* The upload session of app.py                                            *)
(***************************************************************************)
\* the stored uploads of a session fit its mode: every file is of the type
\* that is the mode, under one of the four directions, one file a direction
UploadsFitMode(s) ==
    /\ \A i \in 1..Len(s.uploaded_files) :
          /\ s.uploaded_files[i].file.file_type = s.processing_mode
          /\ s.uploaded_files[i].direction \in Directions
    /\ NoDuplicates([i \in 1..Len(s.uploaded_files) |-> s.uploaded_files[i].direction])
    /\ Len(s.uploaded_files) <= Cardinality(Directions)

\* what C23 says of one request
C23_Step ==
    /\ UploadsFitMode(session')
    /\ "upload" \in DOMAIN request' =>
          LET form == request'.upload
          IN  (\/ form.direction \notin Directions
               \/ /\ session.processing_mode # "NONE"
                  /\ form.file_type # session.processing_mode)
              => (request'.status = 400 /\ session' = session)
    /\ (op' \in {"process", "process_rejected"} /\ session.uploaded_files = <<>>)
          => (request'.pc = "rejected" /\ op' = "process_rejected"
              /\ session' = session)

\* C23: after any sequence of index, upload, process and reset requests in
\* one session every stored upload has the type that is the session's
\* processing mode and is kept under one of the four directions, one file a
\* direction; an upload with an invalid direction or of another type than
\* the mode is answered with an error and changes neither the uploads nor
\* the mode; process without a stored upload is answered with an error.
C23_UploadSessionConsistent == [][C23_Step]_vars

\* two videos are stored and an image for SOUTH was refused
C23_Witness ==
    /\ op = "upload_rejected"
    /\ request.upload = [direction |-> "SOUTH", file_type |-> "image"]
    /\ request.status = 400
    /\ session.processing_mode = "video"
    /\ Len(session.uploaded_files) = 2
    /\ session.uploaded_files[1].direction = "NORTH"
    /\ session.uploaded_files[1].file = Readable("video", <<NearFrame, OtherFrame>>)
    /\ session.uploaded_files[2].direction = "SOUTH"
====
